---- MODULE Spec2Model ----
(***************************************************************************)
(* Kintsugi: the filesystem scanner (src/scan/walker.py), the fragment     *)
(* extractor (src/assemble/fragments.py), the receipt generator            *)
(* (src/outputs/receipts.py) and the command line (src/cli.py).            *)
(*                                                                         *)
(* Each component is a state machine of its own over the variables below:  *)
(* SpecWalk, SpecText, SpecReceipts and SpecCli.                           *)
(***************************************************************************)
EXTENDS Integers, Sequences, FiniteSets, TLC

VARIABLES
    \* ---- walk_candidates (src/scan/walker.py) ----
    world,            \* the filesystem walked and the roots argument
    max_bytes,        \* argument
    time_budget_s,    \* argument
    follow_symlinks,  \* argument
    wpc,              \* position of the generator: "loop", "scan", "yielded", "done"
    q,                \* deque of paths
    seen_dirs,        \* set of (dev, ino) keys
    cnt,              \* total_files, total_bytes_read, skipped_cloud, skipped_symlink, skipped_binary
    current,          \* the path popped from q
    it,               \* index of the next entry of the open scandir iterator
    now,              \* last reading of time.time() - start
    yielded,          \* history: the Candidates yielded so far
    scanned,          \* history: the directory identities whose scandir was opened
    fired,            \* history: the budget trigger that was observed ("none", "time", "bytes")
    raised,           \* history: the last step raised an operating-system error
    summary,          \* the generator's return value: <<>> until it returns, then <<the dict>>
    \* ---- file_to_fragments / _normalise_text (src/assemble/fragments.py) ----
    data,             \* the bytes of the file
    tpc,              \* "ready", "extracted", "normalised"
    fragments,        \* the list file_to_fragments returned
    norm,             \* _normalise_text of the text
    \* ---- fragments_to_receipts (src/outputs/receipts.py) ----
    frags_in,         \* the argument
    rpc,              \* "ready", "converted"
    receipts,         \* the list returned
    \* ---- main (src/cli.py) ----
    argv,             \* the arguments after the program name
    cpc,              \* "start", "returned", "exited"
    mode,             \* the local mode, "unset" until line 43 assigns it
    stdout,           \* the lines printed
    exit_code         \* the return value of main or the code of SystemExit

walk_vars == <<world, max_bytes, time_budget_s, follow_symlinks, wpc, q, seen_dirs, cnt,
               current, it, now, yielded, scanned, fired, raised, summary>>
text_vars == <<data, tpc, fragments, norm>>
rcpt_vars == <<frags_in, rpc, receipts>>
cli_vars  == <<argv, cpc, mode, stdout, exit_code>>
vars == <<walk_vars, text_vars, rcpt_vars, cli_vars>>

\* ---- generic helpers --------------------------------------------------

Min(a, b) == IF a < b THEN a ELSE b

Range(s) == {s[i] : i \in DOMAIN s}

RECURSIVE SeqsUpTo(_, _)
\* all sequences over S of length <= n
SeqsUpTo(S, n) ==
    IF n = 0 THEN {<<>>}
    ELSE LET shorter == SeqsUpTo(S, n - 1)
         IN  shorter \cup {Append(s, x) : s \in {t \in shorter : Len(t) = n - 1}, x \in S}

(***************************************************************************)
(*                       src/scan/walker.py                                *)
(***************************************************************************)

SAMPLE_BYTES == 4096

DEFAULT_MAX_BYTES == 300 * 1024 * 1024

TEXT_EXTS == {".txt", ".md", ".markdown", ".rst", ".json", ".yaml", ".yml", ".toml",
              ".log", ".bak", ".tmp", ".swp", ".md~"}

\* Bounds of the environment.
MaxClock == 1       \* readings of the elapsed time are 0..MaxClock
TimeBudget == 0     \* the time_budget_s the walks are run with

\* str.lower() on the name segments used in the filesystems below.
Lower(s) ==
    CASE s = ".MD" -> ".md"
      [] s = ".TXT" -> ".txt"
      [] s = ".ICLOUD" -> ".icloud"
      [] s = ".CloudF" -> ".cloudf"
      [] s = "Mobile Documents" -> "mobile documents"
      [] OTHER -> s

\* A file name is the sequence of its segments: a stem, then the dot-suffixes,
\* <<"n", ".txt", ".icloud">> for n.txt.icloud; a leading dot-segment is the stem
\* of a dot-file (<<".cloudf", ".txt">> for .cloudf.txt).
\* PurePath.suffix: the last dot-segment, unless it is the whole name.
suffix(name) == IF Len(name) > 1 THEN name[Len(name)] ELSE ""

\* str.endswith / str.startswith, on the lowered name
endswith(name, seg) == Lower(name[Len(name)]) = seg
startswith(name, seg) == Lower(name[1]) = seg

\* Directory entries.
Dir(n, d)     == [kind |-> "dir",      name |-> <<n>>, ino |-> d, content |-> "none", size |-> 0]
DirLink(n, d) == [kind |-> "dirlink",  name |-> <<n>>, ino |-> d, content |-> "none", size |-> 0]
File(f, n, c, s)     == [kind |-> "file",     name |-> n, ino |-> f, content |-> c, size |-> s]
FileLink(f, n, c, s) == [kind |-> "filelink", name |-> n, ino |-> f, content |-> c, size |-> s]
Other(n)      == [kind |-> "other",    name |-> <<n>>, ino |-> 0, content |-> "none", size |-> 0]

\* Two sibling directories that symlink into each other, under a common parent.
TreeSiblings ==
    [d \in {1, 2, 3} |->
       CASE d = 1 -> << Dir("x", 2), Dir("y", 3),
                        File(11, <<"a", ".txt">>, "text", 10),
                        File(12, <<"b", ".exe">>, "binary", 10),
                        File(13, <<"n", ".txt", ".icloud">>, "text", 10) >>
         [] d = 2 -> << DirLink("toy", 3),
                        File(21, <<"c", ".MD">>, "text", 5000),
                        FileLink(31, <<"ln", ".txt">>, "utf16", 64) >>
         [] d = 3 -> << DirLink("tox", 2),
                        File(31, <<"d", ".log">>, "utf16", 64),
                        File(32, <<".CloudF", ".txt">>, "text", 10) >> ]

\* A chain with a symlink back to the top and a directory linking to itself.
TreeChain ==
    [d \in {1, 2, 3} |->
       CASE d = 1 -> << DirLink("self", 1), Dir("Mobile Documents", 2),
                        File(11, <<"e", ".json">>, "binary", 10),
                        Other("fifo") >>
         [] d = 2 -> << File(21, <<"g", ".md">>, "text", 10),
                        File(22, <<"h", ".yaml">>, "garbage", 10),
                        File(23, <<"z", ".lnk">>, "text", 10),
                        Dir("deep", 3) >>
         [] d = 3 -> << DirLink("up", 1),
                        File(31, <<"i", ".toml">>, "empty", 0),
                        File(32, <<"x", ".cloud">>, "text", 10),
                        File(33, <<"k", ".TXT">>, "text", 5000) >> ]

\* A path is kept as what the walk reads of it: the directory identity it resolves
\* to (0: nothing there) and whether one of its parts is "mobile documents".
Path(d, md) == [ino |-> d, md |-> md]

\* The roots arguments: a root given twice, a root below another root, and a root
\* that does not exist between two others. The paths into the chain that pass
\* through its directory "Mobile Documents" have that part.
SiblingRoots == { <<Path(1, FALSE), Path(1, FALSE)>>,
                  <<Path(2, FALSE), Path(1, FALSE)>>,
                  <<Path(3, FALSE), Path(0, FALSE), Path(2, FALSE)>> }

ChainRoots == { <<Path(1, FALSE), Path(1, FALSE)>>,
                <<Path(2, TRUE), Path(1, FALSE)>>,
                <<Path(3, TRUE), Path(0, FALSE), Path(2, TRUE)>> }

Worlds == {[dirs |-> TreeSiblings, roots |-> r] : r \in SiblingRoots}
          \cup {[dirs |-> TreeChain, roots |-> r] : r \in ChainRoots}

Dirs(w) == DOMAIN w.dirs

\* Exceptions: the classes the walk raises or catches, and isinstance.
OSErrors == {"OSError", "PermissionError", "TimeoutError"}

IsInstance(exc, cls) ==
    \/ exc = cls
    \/ cls = "OSError" /\ exc \in OSErrors

\* What a file holds, as far as the text probe reads it: "text" decodes and has no
\* NUL, "utf16" decodes and has NULs within the 1/16 allowance, "binary" has more
\* NULs than that, "garbage" decodes under no encoding, "empty" is the empty file.
Sample(e) ==
    LET n == Min(e.size, SAMPLE_BYTES)
    IN  CASE e.content = "text"    -> [len |-> n, nul |-> 0,              decodes |-> TRUE]
          [] e.content = "utf16"   -> [len |-> n, nul |-> n \div 16,      decodes |-> TRUE]
          [] e.content = "binary"  -> [len |-> n, nul |-> (n \div 16) + 1,  decodes |-> TRUE]
          [] e.content = "garbage" -> [len |-> n, nul |-> 0,              decodes |-> FALSE]
          [] OTHER                 -> [len |-> 0, nul |-> 0,              decodes |-> TRUE]

\* The operating-system error injected into one step: where it is raised and its class.
NoErr == [site |-> "none", exc |-> "none"]
Errs(sites) == {NoErr} \cup {[site |-> s, exc |-> x] : s \in sites, x \in OSErrors}

\* except <classes>: whether the clause catches the exception
Catches(exc, classes) == \E c \in classes : IsInstance(exc, c)

\* _is_symlink, lines 32-38
_is_symlink(e, err) ==
    IF err.site = "is_symlink" /\ Catches(err.exc, {"OSError"}) THEN FALSE
    ELSE e.kind \in {"dirlink", "filelink"}

\* DirEntry.is_dir / is_file (follow_symlinks=...)
is_dir(e, follow) == e.kind = "dir" \/ (e.kind = "dirlink" /\ follow)
is_file(e, follow) == e.kind = "file" \/ (e.kind = "filelink" /\ follow)

\* _looks_like_text, lines 41-66
_looks_like_text(e, err) ==
    IF err.site = "open" /\ Catches(err.exc, {"OSError", "PermissionError"}) THEN FALSE
    ELSE LET chunk == Sample(e)
         IN  IF chunk.len = 0 THEN FALSE
             ELSE IF chunk.nul > chunk.len \div 16 THEN FALSE
             ELSE chunk.decodes

\* the suffix and prefix tests of _is_cloud_placeholder, lines 76-83
CloudName(name) ==
    \/ endswith(name, ".icloud")
    \/ endswith(name, ".cloud") \/ endswith(name, ".lnk") \/ startswith(name, ".cloudf")

\* _is_cloud_placeholder, lines 69-90; md: the path has the part "mobile documents"
_is_cloud_placeholder(e, md, err) ==
    IF CloudName(e.name) THEN TRUE
    ELSE IF md /\ ~_looks_like_text(e, err) THEN TRUE
    ELSE FALSE

\* _ext_allows_consideration, lines 93-94
_ext_allows_consideration(name) == Lower(suffix(name)) \in TEXT_EXTS

\* The body of the entry loop after the time check, lines 144-191: what becomes of
\* one entry, and whether the injected error was raised on the way.
\*   "enqueue" | "skip" | "symlink" | "cloud" | "binary" | "yield"
EntryOutcome(e, md, follow, err) ==
    LET R(o, r) == [out |-> o, raised |-> r]
        s == err.site
    IN
    IF s = "is_dir" /\ Catches(err.exc, {"OSError"}) THEN R("skip", TRUE)
    ELSE IF is_dir(e, follow) THEN R("enqueue", FALSE)
    ELSE IF ~follow /\ _is_symlink(e, err) THEN R("symlink", FALSE)
    ELSE LET r1 == ~follow /\ s = "is_symlink" IN
    IF s = "is_file" /\ Catches(err.exc, {"OSError"}) THEN R("skip", TRUE)
    ELSE IF ~is_file(e, follow) THEN R("skip", r1)
    ELSE IF ~_ext_allows_consideration(e.name) THEN R("skip", r1)
    ELSE IF _is_cloud_placeholder(e, md, err)
         THEN R("cloud", r1 \/ (s = "open" /\ ~CloudName(e.name)))
    ELSE IF ~_looks_like_text(e, err) THEN R("binary", r1 \/ s = "open")
    ELSE IF s = "stat" /\ Catches(err.exc, {"OSError"}) THEN R("skip", TRUE)
    ELSE R("yield", r1)

EntrySites == {"is_dir", "is_symlink", "is_file", "open", "stat"}

\* the time checks, lines 122 and 141
TimeExceeded(elapsed, budget) == elapsed > budget

\* the byte check, line 193
BytesExhausted(total, budget) == total >= budget

\* OuterHandler with the OSError clause written first: it then takes TimeoutError,
\* a subclass of OSError, as well.
OuterHandlerOSErrorFirst(exc) ==
    IF Catches(exc, {"OSError", "PermissionError"}) THEN "continue"
    ELSE IF Catches(exc, {"TimeoutError"}) THEN "break"
    ELSE IF Catches(exc, {"MemoryError"}) THEN "break"
    ELSE "propagate"

\* the except clauses of the scan, lines 196-201: what the loop does next
OuterHandler(exc) ==
    IF Catches(exc, {"TimeoutError"}) THEN "break"
    ELSE IF Catches(exc, {"MemoryError"}) THEN "break"
    ELSE IF Catches(exc, {"OSError", "PermissionError"}) THEN "continue"
    ELSE "propagate"

\* SeenBefore without the lookup: no directory counts as visited.
SeenBeforeNever(key, seen) == FALSE

\* line 131
SeenBefore(key, seen) == key \in seen

\* the summary dict, lines 203-210
RunSummary(elapsed, c) ==
    [elapsed_s |-> elapsed, files_seen |-> c.total_files,
     sampled_bytes |-> c.total_bytes_read, skipped_cloud |-> c.skipped_cloud,
     skipped_symlink |-> c.skipped_symlink, skipped_binary |-> c.skipped_binary]

Bump(c, field, by) == [c EXCEPT ![field] = @ + by]

Entries == world.dirs[current.ino]

WalkParams == <<world, max_bytes, time_budget_s, follow_symlinks>>

\* the variables of the other components
others == <<text_vars, rcpt_vars, cli_vars>>

\* lines 107-118
InitWalk ==
    /\ world \in Worlds
    /\ max_bytes \in {SAMPLE_BYTES, DEFAULT_MAX_BYTES}
    /\ time_budget_s = TimeBudget
    /\ follow_symlinks \in BOOLEAN
    /\ wpc = "loop"
    /\ q = world.roots
    /\ seen_dirs = {}
    /\ cnt = [total_files |-> 0, total_bytes_read |-> 0, skipped_cloud |-> 0,
              skipped_symlink |-> 0, skipped_binary |-> 0]
    /\ current = Path(0, FALSE)
    /\ it = 0
    /\ now = 0
    /\ yielded = <<>>
    /\ scanned = <<>>
    /\ fired = "none"
    /\ raised = FALSE
    /\ summary = <<>>

\* The generator leaves the while loop and returns the summary, lines 203-210.
Return(t) ==
    /\ wpc' = "done"
    /\ now' = t
    /\ summary' = <<RunSummary(t, cnt)>>

\* What follows an exception that reaches the except clauses of lines 196-201.
Handle(exc, t) ==
    CASE OuterHandler(exc) = "break"    -> Return(t)
      [] OuterHandler(exc) = "continue" -> wpc' = "loop" /\ now' = t /\ summary' = summary
      [] OTHER                          -> wpc' = "raised" /\ now' = t /\ summary' = summary

\* while q: is false, line 120
WalkExhausted ==
    /\ wpc = "loop" /\ q = <<>>
    /\ \E t \in now..MaxClock : Return(t)
    /\ raised' = FALSE
    /\ UNCHANGED <<others, WalkParams, q, seen_dirs, cnt, current, it, yielded, scanned, fired>>

\* the time check at the head of the loop fires, lines 122-123
WalkTimeBreak ==
    /\ wpc = "loop" /\ q # <<>>
    /\ \E t \in now..MaxClock :
         /\ TimeExceeded(t, time_budget_s)
         /\ fired' = "time"
         /\ Return(t)
    /\ raised' = FALSE
    /\ UNCHANGED <<others, WalkParams, q, seen_dirs, cnt, current, it, yielded, scanned>>

\* current.stat() raises: the path is gone, or an injected error; lines 125-135
WalkStatError ==
    /\ wpc = "loop" /\ q # <<>>
    /\ \E t \in now..MaxClock, exc \in OSErrors :
         /\ ~TimeExceeded(t, time_budget_s)
         /\ Catches(exc, {"OSError"})
         /\ now' = t
    /\ current' = Head(q)
    /\ q' = Tail(q)
    /\ raised' = TRUE
    /\ UNCHANGED <<others, WalkParams, wpc, seen_dirs, cnt, it, yielded, scanned, fired, summary>>

\* the directory was visited before, lines 125-132
WalkSeen ==
    /\ wpc = "loop" /\ q # <<>>
    /\ Head(q).ino # 0
    /\ SeenBefore(Head(q).ino, seen_dirs)
    /\ \E t \in now..MaxClock : ~TimeExceeded(t, time_budget_s) /\ now' = t
    /\ current' = Head(q)
    /\ q' = Tail(q)
    /\ raised' = FALSE
    /\ UNCHANGED <<others, WalkParams, wpc, seen_dirs, cnt, it, yielded, scanned, fired, summary>>

\* os.scandir(current) raises, lines 125-138 and 196-201
WalkScandirError ==
    /\ wpc = "loop" /\ q # <<>>
    /\ Head(q).ino # 0
    /\ ~SeenBefore(Head(q).ino, seen_dirs)
    /\ current' = Head(q)
    /\ q' = Tail(q)
    /\ seen_dirs' = seen_dirs \cup {Head(q).ino}
    /\ scanned' = Append(scanned, Head(q).ino)
    /\ \E t \in now..MaxClock, exc \in OSErrors :
         /\ ~TimeExceeded(t, time_budget_s)
         /\ Handle(exc, t)
    /\ raised' = TRUE
    /\ UNCHANGED <<others, WalkParams, cnt, it, yielded, fired>>

\* os.scandir(current) opens the directory, lines 125-138
WalkOpen ==
    /\ wpc = "loop" /\ q # <<>>
    /\ Head(q).ino # 0
    /\ ~SeenBefore(Head(q).ino, seen_dirs)
    /\ \E t \in now..MaxClock : ~TimeExceeded(t, time_budget_s) /\ now' = t
    /\ current' = Head(q)
    /\ q' = Tail(q)
    /\ seen_dirs' = seen_dirs \cup {Head(q).ino}
    /\ scanned' = Append(scanned, Head(q).ino)
    /\ it' = 1
    /\ wpc' = "scan"
    /\ raised' = FALSE
    /\ UNCHANGED <<others, WalkParams, cnt, yielded, fired, summary>>

\* the iterator is exhausted: the with block closes it and the while loop goes on
ScanEnd ==
    /\ wpc = "scan" /\ it > Len(Entries)
    /\ wpc' = "loop"
    /\ raised' = FALSE
    /\ UNCHANGED <<others, WalkParams, q, seen_dirs, cnt, current, it, now, yielded, scanned,
                   fired, summary>>

\* reading the next entry raises, lines 139 and 196-201
ScanIterError ==
    /\ wpc = "scan" /\ it <= Len(Entries)
    /\ \E exc \in OSErrors : Handle(exc, now)
    /\ raised' = TRUE
    /\ UNCHANGED <<others, WalkParams, q, seen_dirs, cnt, current, it, yielded, scanned, fired>>

\* the time check of the entry loop fires, lines 141-142 and 196-197
ScanTimeout ==
    /\ wpc = "scan" /\ it <= Len(Entries)
    /\ \E t \in now..MaxClock :
         /\ TimeExceeded(t, time_budget_s)
         /\ fired' = "time"
         /\ Handle("TimeoutError", t)
    /\ raised' = FALSE
    /\ UNCHANGED <<others, WalkParams, q, seen_dirs, cnt, current, it, yielded, scanned>>

\* one entry goes through the filters, lines 139-191
ScanEntry ==
    /\ wpc = "scan" /\ it <= Len(Entries)
    /\ \E t \in now..MaxClock, err \in Errs(EntrySites) :
         LET e == Entries[it]
             o == EntryOutcome(e, current.md, follow_symlinks, err)
         IN  /\ ~TimeExceeded(t, time_budget_s)
             /\ err.site # "none" => o.raised
             /\ now' = t
             /\ raised' = o.raised
             /\ q' = IF o.out = "enqueue"
                     THEN Append(q, Path(e.ino, current.md \/ Lower(e.name[1]) = "mobile documents"))
                     ELSE q
             /\ cnt' = CASE o.out = "symlink" -> Bump(cnt, "skipped_symlink", 1)
                         [] o.out = "cloud"   -> Bump(cnt, "skipped_cloud", 1)
                         [] o.out = "binary"  -> Bump(cnt, "skipped_binary", 1)
                         [] o.out = "yield"   ->
                              Bump(Bump(cnt, "total_files", 1),
                                   "total_bytes_read", Min(e.size, SAMPLE_BYTES))
                         [] OTHER -> cnt
             /\ yielded' = IF o.out = "yield"
                           THEN Append(yielded, [file |-> e.ino, name |-> e.name,
                                                 size |-> e.size, dir |-> current.ino])
                           ELSE yielded
             /\ wpc' = IF o.out = "yield" THEN "yielded" ELSE "scan"
    /\ it' = it + 1
    /\ UNCHANGED <<others, WalkParams, seen_dirs, current, scanned, fired, summary>>

\* the consumer asks for the next Candidate and the byte check fires, lines 193-199
ResumeOverBudget ==
    /\ wpc = "yielded"
    /\ BytesExhausted(cnt.total_bytes_read, max_bytes)
    /\ fired' = "bytes"
    /\ \E t \in now..MaxClock : Handle("MemoryError", t)
    /\ raised' = FALSE
    /\ UNCHANGED <<others, WalkParams, q, seen_dirs, cnt, current, it, yielded, scanned>>

\* the consumer asks for the next Candidate and the scan goes on, line 193
Resume ==
    /\ wpc = "yielded"
    /\ ~BytesExhausted(cnt.total_bytes_read, max_bytes)
    /\ wpc' = "scan"
    /\ raised' = FALSE
    /\ UNCHANGED <<others, WalkParams, q, seen_dirs, cnt, current, it, now, yielded, scanned,
                   fired, summary>>

NextWalk ==
    \/ WalkExhausted \/ WalkTimeBreak \/ WalkStatError \/ WalkSeen
    \/ WalkScandirError \/ WalkOpen
    \/ ScanEnd \/ ScanIterError \/ ScanTimeout \/ ScanEntry
    \/ ResumeOverBudget \/ Resume

(***************************************************************************)
(*                     src/assemble/fragments.py                           *)
(***************************************************************************)

\* Bytes and code points are numbers; a bytes object and a str are sequences.
LF == 10
CR == 13

\* Bounds of the inputs.
MaxLen == 5         \* the longest file, in bytes

ByteAlphabet == {97, 32, LF, CR, 195, 169}   \* "a", " ", "\n", "\r" and the two bytes of U+00E9

\* str.isspace(): the code points Python takes as whitespace
Whitespace == (9..13) \cup (28..32) \cup {133, 160, 5760} \cup (8192..8202)
              \cup {8232, 8233, 8239, 8287, 12288}

RECURSIVE Utf8Decode(_)
\* bytes.decode("utf-8") for bytes below 224 (one- and two-byte forms):
\* [ok, text]; ok is FALSE where Python raises UnicodeDecodeError
Utf8Decode(b) ==
    IF b = <<>> THEN [ok |-> TRUE, text |-> <<>>]
    ELSE IF b[1] < 128
         THEN LET r == Utf8Decode(Tail(b))
              IN  [ok |-> r.ok, text |-> <<b[1]>> \o r.text]
    ELSE IF b[1] \in 194..223 /\ Len(b) >= 2 /\ b[2] \in 128..191
         THEN LET r == Utf8Decode(SubSeq(b, 3, Len(b)))
              IN  [ok |-> r.ok, text |-> <<(b[1] - 192) * 64 + (b[2] - 128)>> \o r.text]
    ELSE [ok |-> FALSE, text |-> <<>>]

RECURSIVE Utf16Decode(_, _)
\* bytes.decode("utf-16-le" / "utf-16-be") for code units outside the surrogates
Utf16Decode(b, enc) ==
    IF b = <<>> THEN [ok |-> TRUE, text |-> <<>>]
    ELSE IF Len(b) < 2 THEN [ok |-> FALSE, text |-> <<>>]
    ELSE LET unit == IF enc = "utf-16-le" THEN b[1] + 256 * b[2] ELSE 256 * b[1] + b[2]
             r == Utf16Decode(SubSeq(b, 3, Len(b)), enc)
         IN  IF unit \in 55296..57343 THEN [ok |-> FALSE, text |-> <<>>]
             ELSE [ok |-> r.ok, text |-> <<unit>> \o r.text]

\* str.encode("utf-8") of one code point below 65536
Utf8Char(c) ==
    IF c < 128 THEN <<c>>
    ELSE IF c < 2048 THEN <<192 + (c \div 64), 128 + (c % 64)>>
    ELSE <<224 + (c \div 4096), 128 + ((c \div 64) % 64), 128 + (c % 64)>>

RECURSIVE Utf8Encode(_)
Utf8Encode(t) == IF t = <<>> THEN <<>> ELSE Utf8Char(t[1]) \o Utf8Encode(Tail(t))

\* the decoding loop of file_to_fragments, lines 86-95: the first encoding that
\* decodes wins, and the text stays "" when none does
DecodeFile(b) ==
    LET u8 == Utf8Decode(b)
        le == Utf16Decode(b, "utf-16-le")
        be == Utf16Decode(b, "utf-16-be")
    IN  IF u8.ok THEN u8.text ELSE IF le.ok THEN le.text ELSE IF be.ok THEN be.text ELSE <<>>

RECURSIVE FoldNewlines(_)
\* s.replace("\r\n", "\n").replace("\r", "\n")
FoldNewlines(t) ==
    IF t = <<>> THEN <<>>
    ELSE IF t[1] = CR /\ Len(t) >= 2 /\ t[2] = LF THEN <<LF>> \o FoldNewlines(SubSeq(t, 3, Len(t)))
    ELSE IF t[1] = CR THEN <<LF>> \o FoldNewlines(Tail(t))
    ELSE <<t[1]>> \o FoldNewlines(Tail(t))

RECURSIVE SplitLines(_)
\* s.split("\n"): always at least one line
SplitLines(t) ==
    IF \A i \in DOMAIN t : t[i] # LF THEN <<t>>
    ELSE LET k == CHOOSE i \in DOMAIN t : t[i] = LF /\ \A j \in 1..(i - 1) : t[j] # LF
         IN  <<SubSeq(t, 1, k - 1)>> \o SplitLines(SubSeq(t, k + 1, Len(t)))

RECURSIVE JoinLines(_)
\* "\n".join(lines)
JoinLines(lines) ==
    IF lines = <<>> THEN <<>>
    ELSE IF Len(lines) = 1 THEN lines[1]
    ELSE lines[1] \o <<LF>> \o JoinLines(Tail(lines))

RECURSIVE rstrip(_)
\* str.rstrip()
rstrip(t) ==
    IF t # <<>> /\ t[Len(t)] \in Whitespace THEN rstrip(SubSeq(t, 1, Len(t) - 1)) ELSE t

RECURSIVE lstrip(_)
lstrip(t) == IF t # <<>> /\ t[1] \in Whitespace THEN lstrip(Tail(t)) ELSE t

\* str.strip()
strip(t) == lstrip(rstrip(t))

RECURSIVE StripNewlines(_)
\* str.strip("\n")
StripNewlines(t) ==
    IF t # <<>> /\ t[1] = LF THEN StripNewlines(Tail(t))
    ELSE IF t # <<>> /\ t[Len(t)] = LF THEN StripNewlines(SubSeq(t, 1, Len(t) - 1))
    ELSE t

\* _normalise_text with the two strips in the other order: leading and trailing
\* newlines go first, trailing whitespace of the lines after.
_normalise_text_StripFirst(s) ==
    LET folded == StripNewlines(FoldNewlines(s))
        lines == SplitLines(folded)
    IN  JoinLines([i \in DOMAIN lines |-> rstrip(lines[i])])

\* _normalise_text, lines 28-33
_normalise_text(s) ==
    LET folded == FoldNewlines(s)
        lines == SplitLines(folded)
    IN  StripNewlines(JoinLines([i \in DOMAIN lines |-> rstrip(lines[i])]))

\* The blank test with == "" in place of .strip() == "".
IsEmptyLine(line) == line = <<>>

\* lines[i].strip() == "", lines 52 and 58
IsBlankLine(line) == strip(line) = <<>>

RECURSIVE SkipBlanks(_, _)
\* the inner while, lines 58-59; i counts from 0 as in the source
SkipBlanks(lines, i) ==
    IF i < Len(lines) /\ IsBlankLine(lines[i + 1]) THEN SkipBlanks(lines, i + 1) ELSE i

\* A paragraph tuple (line_start, line_end, text) for lines[start:stop]
Paragraph(lines, start, stop) ==
    <<start + 1, stop, JoinLines(SubSeq(lines, start + 1, stop))>>

\* The tail left out.
TailParagraphDropped(lines, start, out) == out

\* the tail paragraph, lines 64-66
TailParagraph(lines, start, out) ==
    IF start < Len(lines) THEN Append(out, Paragraph(lines, start, Len(lines))) ELSE out

RECURSIVE ParagraphLoop(_, _, _, _)
\* the outer while, lines 50-63, and the tail
ParagraphLoop(lines, i, start, out) ==
    IF i < Len(lines)
    THEN IF IsBlankLine(lines[i + 1])
         THEN LET out2 == IF start < i THEN Append(out, Paragraph(lines, start, i)) ELSE out
                  j == SkipBlanks(lines, i)
              IN  ParagraphLoop(lines, j, j, out2)
         ELSE ParagraphLoop(lines, i + 1, start, out)
    ELSE TailParagraph(lines, start, out)

\* _split_into_paragraphs, lines 40-68
_split_into_paragraphs(full_text) ==
    ParagraphLoop(SplitLines(FoldNewlines(full_text)), 0, 0, <<>>)

\* hashlib.sha256(b).hexdigest(), taken as collision-free: the digest is kept as
\* the bytes it was made of.
_sha256_bytes(b) == <<"sha256", b>>

RECURSIVE Digits(_)
\* the decimal digits of n >= 0, most significant first
Digits(n) == IF n < 10 THEN <<n>> ELSE Digits(n \div 10) \o <<(n % 10)>>

RECURSIVE ZeroPad(_, _)
ZeroPad(ds, width) == IF Len(ds) >= width THEN ds ELSE ZeroPad(<<0>> \o ds, width)

\* f"frag_{idx:06d}", line 126
FragmentId(idx) == <<"frag_">> \o ZeroPad(Digits(idx), 6)

RECURSIVE Sum(_)
Sum(ns) == IF ns = <<>> THEN 0 ELSE ns[1] + Sum(Tail(ns))

RECURSIVE Concat(_)
\* b"".join(...)
Concat(bs) == IF bs = <<>> THEN <<>> ELSE bs[1] \o Concat(Tail(bs))

\* One line re-encoded with its newline, line 109.
Utf8Line(ln) == Utf8Encode(ln \o <<LF>>)

\* file_to_fragments, lines 75-144, for a file holding the bytes b
file_to_fragments(b, path, mtime_iso, source_type, base_confidence) ==
    LET text == DecodeFile(b)
        paragraphs == _split_into_paragraphs(text)
        lines == SplitLines(FoldNewlines(text))
        utf8_lines == [i \in DOMAIN lines |-> Utf8Line(lines[i])]
        \* byte_offsets[k] of the source is byte_offsets[k + 1] here
        byte_offsets == [k \in 1..(Len(lines) + 1) |->
                           Sum([i \in 1..(k - 1) |-> Len(utf8_lines[i])])]
        frag(idx) ==
            LET line_start == paragraphs[idx][1]
                line_end == paragraphs[idx][2]
                normd == _normalise_text(paragraphs[idx][3])
            IN  [fragment_id |-> FragmentId(idx),
                 path |-> path,
                 source_type |-> source_type,
                 line_start |-> line_start,
                 line_end |-> line_end,
                 byte_start |-> byte_offsets[(line_start - 1) + 1],
                 byte_end |-> byte_offsets[line_end + 1],
                 mtime_iso |-> mtime_iso,
                 confidence |-> base_confidence,
                 raw_sha256 |-> _sha256_bytes(Concat(SubSeq(utf8_lines, line_start, line_end))),
                 content_sha256 |-> _sha256_bytes(Utf8Encode(normd)),
                 text |-> normd,
                 trust |-> "Recovered"]
        all == [idx \in DOMAIN paragraphs |-> frag(idx)]
    IN  IF text = <<>> THEN <<>>
        ELSE SelectSeq(all, LAMBDA f : strip(f.text) # <<>>)

InitText ==
    /\ data \in SeqsUpTo(ByteAlphabet, MaxLen)
    /\ tpc = "ready"
    /\ fragments = <<>>
    /\ norm = <<>>

\* file_to_fragments(path, mtime_iso) on a file holding data
ExtractFile ==
    /\ tpc = "ready"
    /\ fragments' = file_to_fragments(data, "f.txt", "2024-01-01T00:00:00+0000", "file", 70)
    /\ tpc' = "extracted"
    /\ UNCHANGED <<data, norm, walk_vars, rcpt_vars, cli_vars>>

\* _normalise_text(t), t being data read as code points
NormaliseText ==
    /\ tpc = "ready"
    /\ norm' = _normalise_text(data)
    /\ tpc' = "normalised"
    /\ UNCHANGED <<data, fragments, walk_vars, rcpt_vars, cli_vars>>

NextText == ExtractFile \/ NormaliseText

(***************************************************************************)
(*                      src/outputs/receipts.py                            *)
(***************************************************************************)

RECURSIVE PathStr(_)
\* str(path): the parts of the path joined by the separator
PathStr(parts) ==
    IF Len(parts) <= 1 THEN parts ELSE <<parts[1], "/">> \o PathStr(Tail(parts))

\* The dict of one receipt with byte_end read from byte_start.
ReceiptByteEndSlip(f) ==
    [fragment_id |-> f.fragment_id,
     source_type |-> "file",
     path |-> PathStr(f.path),
     line_start |-> f.line_start,
     line_end |-> f.line_end,
     byte_start |-> f.byte_start,
     byte_end |-> f.byte_start,
     mtime |-> f.mtime_iso,
     confidence |-> f.confidence,
     raw_sha256 |-> f.raw_sha256,
     content_sha256 |-> f.content_sha256,
     trust |-> f.trust,
     llm |-> [used |-> FALSE, model |-> "None", tokens_in |-> 0, tokens_out |-> 0,
              duration_ms |-> 0]]

\* the dict appended for one Fragment, lines 17-37
Receipt(f) ==
    [fragment_id |-> f.fragment_id,
     source_type |-> "file",
     path |-> PathStr(f.path),
     line_start |-> f.line_start,
     line_end |-> f.line_end,
     byte_start |-> f.byte_start,
     byte_end |-> f.byte_end,
     mtime |-> f.mtime_iso,
     confidence |-> f.confidence,
     raw_sha256 |-> f.raw_sha256,
     content_sha256 |-> f.content_sha256,
     trust |-> f.trust,
     llm |-> [used |-> FALSE, model |-> "None", tokens_in |-> 0, tokens_out |-> 0,
              duration_ms |-> 0]]

\* fragments_to_receipts, lines 9-39
fragments_to_receipts(fs) == [i \in DOMAIN fs |-> Receipt(fs[i])]

\* Fragment, src/assemble/fragments.py lines 10-24: two values for every field
FragmentDomain ==
    [fragment_id : {FragmentId(1), FragmentId(2)},
     path : {<<"docs", "f.txt">>, <<"docs", "g.txt">>},
     source_type : {"file", "autosave"},
     line_start : {1, 2},
     line_end : {2, 3},
     byte_start : {0, 4},
     byte_end : {4, 9},
     mtime_iso : {"2024-01-01T00:00:00+0000", "2024-06-01T12:00:00+0200"},
     confidence : {70, 90},
     raw_sha256 : {_sha256_bytes(<<97>>), _sha256_bytes(<<98>>)},
     content_sha256 : {_sha256_bytes(<<97>>), _sha256_bytes(<<98>>)},
     text : {<<97>>, <<98>>},
     trust : {"Recovered", "Bridged"}]

BaseFragment ==
    [fragment_id |-> FragmentId(1), path |-> <<"docs", "f.txt">>, source_type |-> "file",
     line_start |-> 1, line_end |-> 2, byte_start |-> 0, byte_end |-> 4,
     mtime_iso |-> "2024-01-01T00:00:00+0000", confidence |-> 70,
     raw_sha256 |-> _sha256_bytes(<<97>>), content_sha256 |-> _sha256_bytes(<<97>>),
     text |-> <<97>>, trust |-> "Recovered"]

InitReceipts ==
    /\ frags_in \in {<<>>} \cup {<<f>> : f \in FragmentDomain}
                    \cup {<<BaseFragment, f>> : f \in FragmentDomain}
    /\ rpc = "ready"
    /\ receipts = <<>>

\* fragments_to_receipts(frags_in)
Convert ==
    /\ rpc = "ready"
    /\ receipts' = fragments_to_receipts(frags_in)
    /\ rpc' = "converted"
    /\ UNCHANGED <<frags_in, walk_vars, text_vars, cli_vars>>

NextReceipts == Convert

(***************************************************************************)
(*                            src/cli.py                                   *)
(***************************************************************************)

\* Bound of the inputs.
MaxArgs == 3        \* the arguments after the subcommand

\* The arguments after "recover": a path that exists, a path that does not, and
\* the two flags.
ArgTokens == {"/existing", "/missing", "--strict", "--creative"}

\* positive_path, lines 5-14: [ok, path]; ok is FALSE where ArgumentTypeError is raised
positive_path(p) ==
    IF p = "/existing" THEN [ok |-> TRUE, path |-> p] ELSE [ok |-> FALSE, path |-> p]

\* parser.parse_args(argv) for the parser of lines 21-36, on "recover" followed by
\* args: one positional converted by positive_path, the two store_true flags any
\* number of times; anything else is a usage error (SystemExit 2).
ParseArgs(args) ==
    LET positionals == SelectSeq(args, LAMBDA a : a \notin {"--strict", "--creative"})
    IN  IF Len(positionals) # 1 THEN [error |-> TRUE]
        ELSE IF ~positive_path(positionals[1]).ok THEN [error |-> TRUE]
        ELSE [error |-> FALSE,
              command |-> "recover",
              root |-> positive_path(positionals[1]).path,
              strict |-> "--strict" \in Range(args),
              creative |-> "--creative" \in Range(args)]

\* The mode taken from --strict alone.
ResolveModeNoDefault(strict, creative) == IF strict THEN "strict" ELSE "creative"

\* line 43
ResolveMode(strict, creative) == IF strict \/ ~creative THEN "strict" ELSE "creative"

InitCli ==
    /\ argv \in {<<"recover">> \o a : a \in SeqsUpTo(ArgTokens, MaxArgs)}
    /\ cpc = "start"
    /\ mode = "unset"
    /\ stdout = <<>>
    /\ exit_code = 0

\* parse_args fails: argparse prints the usage to stderr and exits 2, line 36
MainUsageError ==
    /\ cpc = "start"
    /\ ParseArgs(Tail(argv)).error
    /\ cpc' = "exited"
    /\ exit_code' = 2
    /\ UNCHANGED <<argv, mode, stdout, walk_vars, text_vars, rcpt_vars>>

\* both flags: parser.error, lines 38-41
MainConflict ==
    /\ cpc = "start"
    /\ LET args == ParseArgs(Tail(argv))
       IN  /\ ~args.error
           /\ args.command = "recover"
           /\ args.strict /\ args.creative
    /\ cpc' = "exited"
    /\ exit_code' = 2
    /\ UNCHANGED <<argv, mode, stdout, walk_vars, text_vars, rcpt_vars>>

\* the mode is resolved, the status line printed and 0 returned, lines 38-47
MainRecover ==
    /\ cpc = "start"
    /\ LET args == ParseArgs(Tail(argv))
       IN  /\ ~args.error
           /\ args.command = "recover"
           /\ ~(args.strict /\ args.creative)
           /\ mode' = ResolveMode(args.strict, args.creative)
           /\ stdout' = Append(stdout, [root |-> args.root, mode |-> mode'])
    /\ cpc' = "returned"
    /\ exit_code' = 0
    /\ UNCHANGED <<argv, walk_vars, text_vars, rcpt_vars>>

NextCli == MainUsageError \/ MainConflict \/ MainRecover

\* The other components at rest.
IdleText == data = <<>> /\ tpc = "idle" /\ fragments = <<>> /\ norm = <<>>
IdleReceipts == frags_in = <<>> /\ rpc = "idle" /\ receipts = <<>>
IdleCli == argv = <<>> /\ cpc = "idle" /\ mode = "unset" /\ stdout = <<>> /\ exit_code = 0
IdleWalk ==
    /\ world = [dirs |-> <<>>, roots |-> <<>>]
    /\ max_bytes = 0 /\ time_budget_s = 0 /\ follow_symlinks = FALSE
    /\ wpc = "idle" /\ q = <<>> /\ seen_dirs = {}
    /\ cnt = [total_files |-> 0, total_bytes_read |-> 0, skipped_cloud |-> 0,
              skipped_symlink |-> 0, skipped_binary |-> 0]
    /\ current = Path(0, FALSE) /\ it = 0 /\ now = 0
    /\ yielded = <<>> /\ scanned = <<>> /\ fired = "none" /\ raised = FALSE
    /\ summary = <<>>

WalkInit == InitWalk /\ IdleText /\ IdleReceipts /\ IdleCli

SpecWalk == WalkInit /\ [][NextWalk]_vars

TextInit == InitText /\ IdleWalk /\ IdleReceipts /\ IdleCli

SpecText == TextInit /\ [][NextText]_vars

ReceiptsInit == InitReceipts /\ IdleWalk /\ IdleText /\ IdleCli

SpecReceipts == ReceiptsInit /\ [][NextReceipts]_vars

CliInit == InitCli /\ IdleWalk /\ IdleText /\ IdleReceipts

SpecCli == CliInit /\ [][NextCli]_vars

(***************************************************************************)
(*                    Properties of walk_candidates                        *)
(***************************************************************************)

\* The largest number of entries of one directory of the filesystem walked.
MaxEntries == LET lens == {Len(world.dirs[d]) : d \in Dirs(world)}
              IN  IF lens = {} THEN 0 ELSE CHOOSE n \in lens : \A m \in lens : m <= n

\* A measure of the work left that reads neither the clock nor the byte total:
\* the directories not yet visited, the queued paths, the entries left in the open
\* directory and the position of the generator.
WalkVariant ==
    LET E == MaxEntries
        W == E + 2
        unseen == Cardinality(Dirs(world) \ seen_dirs)
        left == IF wpc \in {"scan", "yielded"} THEN Len(Entries) - it + 1 ELSE 0
        rank == CASE wpc = "loop" -> 1 [] wpc = "scan" -> 2 [] wpc = "yielded" -> 3
                  [] OTHER -> 0
    IN  unseen * (E + 1) * (W + 2) + Len(q) * W + left * (W + 2) + rank

NoRescan == \A i, j \in DOMAIN scanned : i # j => scanned[i] # scanned[j]

FilesOnce == \A i, j \in DOMAIN yielded : i # j => yielded[i].file # yielded[j].file

\* C1: on a filesystem whose directories symlink into each other the walk ends
\* without help from a budget (every step strictly lowers a measure of the work
\* left that no budget enters, and the measure never goes below zero); no
\* directory identity is scanned twice, whatever follow_symlinks is and however
\* many paths or roots lead to it; and with follow_symlinks off no real file is
\* yielded twice.
C1_CyclesTerminateAndScanOnce ==
    /\ [](NoRescan /\ (~follow_symlinks => FilesOnce) /\ WalkVariant >= 0)
    /\ [][WalkVariant' < WalkVariant]_vars

\* C1 witness: the walk over the two directories that symlink into each other,
\* links followed, ended by exhausting the queue after scanning all three
\* directories and yielding their four candidates (so both links of the cycle were
\* enqueued and later dropped as visited).
C1_Witness ==
    /\ world.dirs = TreeSiblings /\ follow_symlinks
    /\ wpc = "done" /\ fired = "none" /\ q = <<>>
    /\ Len(scanned) = 3 /\ Len(yielded) = 4

\* C2: once a budget trigger has fired the traversal is over and the summary
\* returned carries exactly the counters accumulated until then; a byte total at
\* or over max_bytes after a yield fires on the very next step, which yields
\* nothing, dequeues nothing and scans nothing.
C2_BudgetStopsAtOnce ==
    /\ [](fired # "none" =>
            /\ wpc = "done"
            /\ Len(summary) = 1
            /\ summary[1] = RunSummary(summary[1].elapsed_s, cnt))
    /\ [][(wpc = "yielded" /\ cnt.total_bytes_read >= max_bytes) =>
            (wpc' = "done" /\ fired' = "bytes")]_vars
    /\ [][fired' # "none" => UNCHANGED <<yielded, scanned, q, seen_dirs, cnt>>]_vars

\* C2 witness: the byte budget stopped a walk that had directories left to visit.
C2_Witness ==
    /\ fired = "bytes" /\ wpc = "done" /\ q # <<>>
    /\ cnt.total_bytes_read >= max_bytes /\ yielded # <<>>

\* C8: a step in which an operating-system error is raised never ends the
\* traversal.
C8_OsErrorNeverAborts == [][raised' => wpc' # "done"]_vars

\* C9: a regular file with a cloud-placeholder name, enumerated without any
\* operating-system error, is not yielded and adds exactly one to skipped_cloud
\* and nothing to the other counters.
C9_CloudNameCounted ==
    [][(/\ wpc = "scan" /\ it <= Len(Entries) /\ it' = it + 1
        /\ ~raised'
        /\ Entries[it].kind = "file"
        /\ CloudName(Entries[it].name))
       => (yielded' = yielded /\ cnt' = Bump(cnt, "skipped_cloud", 1))]_vars

(***************************************************************************)
(*          Properties of file_to_fragments and _normalise_text            *)
(***************************************************************************)

\* The decoded text of the file and its lines after the newline fold.
TextOf == DecodeFile(data)
LinesOf == SplitLines(FoldNewlines(TextOf))

\* A blank line: nothing but whitespace.
WhitespaceOnly(line) == \A i \in DOMAIN line : line[i] \in Whitespace

\* The maximal runs of consecutive non-blank lines, as 1-based inclusive ranges.
MaximalRuns(lines) ==
    {r \in (DOMAIN lines) \X (DOMAIN lines) :
        /\ r[1] <= r[2]
        /\ \A i \in r[1]..r[2] : ~WhitespaceOnly(lines[i])
        /\ (r[1] = 1 \/ WhitespaceOnly(lines[r[1] - 1]))
        /\ (r[2] = Len(lines) \/ WhitespaceOnly(lines[r[2] + 1]))}

\* C3: the paragraphs of a decoded text are exactly its maximal runs of non-blank
\* lines, in order of appearance and disjoint, each with the lines of its run as
\* its text; and file_to_fragments returns one Fragment per run, with the run's
\* range.
C3_ParagraphsAreMaximalRuns ==
    tpc = "extracted" =>
        LET paras == _split_into_paragraphs(TextOf)
        IN  /\ {<<paras[k][1], paras[k][2]>> : k \in DOMAIN paras} = MaximalRuns(LinesOf)
            /\ Len(paras) = Cardinality(MaximalRuns(LinesOf))
            /\ \A k \in DOMAIN paras :
                 /\ k > 1 => paras[k - 1][2] < paras[k][1]
                 /\ SplitLines(paras[k][3]) = SubSeq(LinesOf, paras[k][1], paras[k][2])
            /\ Len(fragments) = IF TextOf = <<>> THEN 0 ELSE Len(paras)
            /\ \A k \in DOMAIN fragments :
                 /\ fragments[k].line_start = paras[k][1]
                 /\ fragments[k].line_end = paras[k][2]

\* C3 witness: a file that starts with a blank line and ends, without a newline,
\* in its second paragraph.
C3_Witness ==
    /\ tpc = "extracted"
    /\ Len(fragments) = 2
    /\ fragments[1].line_start = 2
    /\ fragments[2].line_end = Len(LinesOf)

\* C4: in a file that is valid UTF-8 every Fragment's byte range lies inside the
\* file and holds exactly the bytes that were hashed into raw_sha256.
C4_ByteOffsetsExact ==
    (tpc = "extracted" /\ Utf8Decode(data).ok) =>
        \A k \in DOMAIN fragments :
            LET f == fragments[k]
            IN  /\ 0 <= f.byte_start /\ f.byte_start < f.byte_end /\ f.byte_end <= Len(data)
                /\ SubSeq(data, f.byte_start + 1, f.byte_end) = f.raw_sha256[2]

\* C5: the k-th Fragment returned has the id frag_ followed by k in six digits.
C5_DenseIds ==
    tpc = "extracted" =>
        \A k \in DOMAIN fragments :
            k < 10 /\ fragments[k].fragment_id = <<"frag_", 0, 0, 0, 0, 0, k>>

\* C5 witness: two Fragments out of a file whose paragraphs are separated by a
\* line of spaces.
C5_Witness ==
    /\ tpc = "extracted"
    /\ Len(fragments) = 2
    /\ \E i \in DOMAIN LinesOf : LinesOf[i] # <<>> /\ WhitespaceOnly(LinesOf[i])

\* C6: normalising a normalised text changes nothing.
C6_NormaliseIdempotent == tpc = "normalised" => _normalise_text(norm) = norm

\* C6 witness: a text with a carriage return and a space that normalisation
\* changed and did not empty.
C6_Witness ==
    /\ tpc = "normalised"
    /\ CR \in Range(data) /\ 32 \in Range(data)
    /\ norm # data /\ norm # <<>>

(***************************************************************************)
(*                  Properties of fragments_to_receipts                    *)
(***************************************************************************)

\* The fields of a Fragment and the keys of a receipt.
FragmentFields == {"fragment_id", "path", "source_type", "line_start", "line_end",
                   "byte_start", "byte_end", "mtime_iso", "confidence", "raw_sha256",
                   "content_sha256", "text", "trust"}

\* the fields a receipt does not carry: source_type is written as the literal
\* "file" and text is left out
NotCarried == {"source_type", "text"}

LlmDefault == [used |-> FALSE, model |-> "None", tokens_in |-> 0, tokens_out |-> 0,
               duration_ms |-> 0]

\* C7 as stated: one receipt per Fragment, and Fragments that differ in any field
\* have different receipts.
C7_ReceiptsLossless ==
    rpc = "converted" =>
        /\ Len(receipts) = Len(frags_in)
        /\ \A i, j \in DOMAIN frags_in :
             frags_in[i] # frags_in[j] => receipts[i] # receipts[j]

\* C7 amended: one receipt per Fragment, in order; the receipt holds the
\* Fragment's fragment_id, line and byte ranges, mtime_iso (as mtime), confidence,
\* both hashes and trust unchanged and its path as a string, the literal "file" as
\* source_type and the fixed llm block, and nothing else; so Fragments that differ
\* in a field other than source_type and text have different receipts, and
\* Fragments that differ only in source_type or text have equal ones.
C7_ReceiptsCarryAllButSourceTypeAndText ==
    rpc = "converted" =>
        /\ Len(receipts) = Len(frags_in)
        /\ \A i \in DOMAIN frags_in :
             LET f == frags_in[i]
                 r == receipts[i]
             IN  /\ DOMAIN r = (FragmentFields \ {"mtime_iso", "text"}) \cup {"mtime", "llm"}
                 /\ r.fragment_id = f.fragment_id
                 /\ r.line_start = f.line_start /\ r.line_end = f.line_end
                 /\ r.byte_start = f.byte_start /\ r.byte_end = f.byte_end
                 /\ r.mtime = f.mtime_iso /\ r.confidence = f.confidence
                 /\ r.raw_sha256 = f.raw_sha256 /\ r.content_sha256 = f.content_sha256
                 /\ r.trust = f.trust
                 /\ r.source_type = "file"
                 /\ r.llm = LlmDefault
        /\ \A i, j \in DOMAIN frags_in :
             (receipts[i] = receipts[j]) <=>
                 (\A k \in FragmentFields \ NotCarried : frags_in[i][k] = frags_in[j][k])

\* C7 witness: two Fragments that differ in byte_end alone, converted.
C7_Witness ==
    /\ rpc = "converted"
    /\ Len(frags_in) = 2
    /\ frags_in[1].byte_end # frags_in[2].byte_end
    /\ \A k \in FragmentFields \ {"byte_end"} : frags_in[1][k] = frags_in[2][k]
    /\ receipts[1] # receipts[2]

(***************************************************************************)
(*                         Properties of main                              *)
(***************************************************************************)

\* The invocation recover <root> [flags]: what was given on the command line.
GivenRoots == SelectSeq(Tail(argv), LAMBDA a : a \in {"/existing", "/missing"})
GivenStrict == "--strict" \in Range(Tail(argv))
GivenCreative == "--creative" \in Range(Tail(argv))

\* C10: for recover with one root: a root that does not exist ends in a non-zero
\* exit with no mode resolved and nothing printed; an existing root with both
\* flags likewise; every other combination prints exactly one status line and
\* returns 0, the mode being creative exactly when --creative came without
\* --strict.
C10_ModeResolution ==
    (cpc # "start" /\ Len(GivenRoots) = 1) =>
        IF GivenRoots[1] = "/missing" \/ (GivenStrict /\ GivenCreative)
        THEN /\ cpc = "exited" /\ exit_code # 0
             /\ mode = "unset" /\ stdout = <<>>
        ELSE /\ cpc = "returned" /\ exit_code = 0
             /\ Len(stdout) = 1
             /\ stdout[1].root = GivenRoots[1]
             /\ stdout[1].mode = mode
             /\ mode \in {"strict", "creative"}
             /\ (mode = "creative") <=> (GivenCreative /\ ~GivenStrict)

\* C10 witness: recover <existing root> with no flag has returned 0 in strict mode.
C10_Witness ==
    /\ argv = <<"recover", "/existing">>
    /\ cpc = "returned" /\ exit_code = 0
    /\ Len(stdout) = 1 /\ stdout[1].mode = "strict"

====
